---- MODULE Spec2Model ----
(***************************************************************************)
(* bunsen.mapping: the Python binding over the concept map, value set and  *)
(* hierarchy stores.  The Python methods are translated from               *)
(* src/python/bunsen/mapping/__init__.py.  The JVM collaborators they call *)
(* (getConceptMap, withConceptMaps, getMaps, getMappings, ...) are not     *)
(* part of that file; they are modelled from spec.md and carry the prefix  *)
(* J.                                                                      *)
(***************************************************************************)
EXTENDS Integers, Sequences, FiniteSets, Bags, TLC

VARIABLES
    inUse,    \* the class whose instance the caller created and works with
    cmSelf,   \* self._jconcept_maps of the ConceptMaps instance in use
    cmLast,   \* the last ConceptMaps call: arguments, receiver before, outcome
    vsSelf,   \* self._jvalue_sets of the ValueSets instance in use
    vsLast,   \* the last ValueSets call
    clock,    \* the wall clock datetime.now() reads, in ticks
    hSelf,    \* self._jhierarchies: the ancestor rows of the Hierarchies instance
    hLast     \* the last Hierarchies call

vars == <<inUse, cmSelf, cmLast, vsSelf, vsLast, clock, hSelf, hLast>>

(***************************************************************************)
(* Bounds of the model.                                                    *)
(***************************************************************************)
MaxArtifacts == 1   \* the caller goes on with stores of at most this many artifacts
MaxClock == 3       \* last clock tick
TicksPerSecond == 2 \* clock ticks per second (sub-second resolution)

(***************************************************************************)
(* Python values.                                                          *)
(***************************************************************************)
\* Python's None / a Java null / an unset FHIR element.  No url, version,
\* system or code of the model is this string.
None == "None"

\* The module's global names: imports, functions and classes (lines 9-320).
ModuleGlobals ==
    { "functions", "DataFrame", "collections", "datetime",
      "get_concept_maps", "create_concept_maps", "get_value_sets",
      "create_value_sets", "get_hierarchies", "create_hierarchies",
      "_add_mappings_to_map", "_add_values_to_value_set",
      "ConceptMaps", "ValueSets", "Hierarchies" }

\* The number of required positional parameters of the module-level functions.
RequiredArgs(name) ==
    IF name \in {"get_concept_maps", "create_concept_maps", "get_value_sets",
                 "create_value_sets", "get_hierarchies", "create_hierarchies"}
    THEN 1
    ELSE 0

\* The outcome of a call: the receiver's store after it, the exception raised
\* ("None" when it returned), and the value returned.
Returned(self, value) == [self |-> self, exc |-> None, ret |-> value]
Raised(self, e) == [self |-> self, exc |-> e, ret |-> None]

\* Calling the bare name `name` with nargs positional arguments inside a method:
\* the exception Python raises, or None when the call goes through.
CallBareName(name, nargs) ==
    IF name \notin ModuleGlobals THEN "NameError"
    ELSE IF nargs < RequiredArgs(name) THEN "TypeError"
    ELSE None

\* Column equality against functions.lit(x) in a where(): SQL gives null, and the
\* row is dropped, when either side is null.
EqLit(col, x) == col # None /\ x # None /\ col = x

RECURSIVE SeqToBag(_)
SeqToBag(s) ==
    IF s = <<>> THEN EmptyBag ELSE SetToBag({Head(s)}) (+) SeqToBag(Tail(s))

Range(s) == { s[i] : i \in 1..Len(s) }

(***************************************************************************)
(* Inputs.                                                                 *)
(***************************************************************************)
Urls == {"u1", "u2"}
Versions == {"1", "2"}
Sources == {"src1"}
Targets == {"tgt1"}

\* A mapping is (source_system, source_value, target_system, target_value,
\* equivalence).
\* The mappings lists passed: empty, one entry, two entries of one group, a
\* repeated entry, and two groups interleaved.
MappingLists ==
    { <<>>,
      << <<"s1", "A1", "t1", "B1", "equivalent">> >>,
      << <<"s1", "A2", "t1", "B2", None>>, <<"s1", "A1", "t1", "B1", "equivalent">> >>,
      << <<"s1", "A2", "t1", "B2", None>>, <<"s1", "A2", "t1", "B2", None>> >>,
      << <<"s1", "A1", "t1", "B1", "equivalent">>, <<"s2", "A1", "t1", "B1", "wider">>,
         <<"s1", "A2", "t1", "B2", None>> >> }

(***************************************************************************)
(* org.hl7.fhir.dstu3.model objects as the Python code builds them.        *)
(***************************************************************************)
\* A FHIR boolean element as a row shows it; an unset element shows as None.
FhirBoolean(b) == IF b THEN "true" ELSE "false"

\* ConceptMap(): a new resource, every element unset.
NewConceptMap ==
    [url |-> None, version |-> None, source |-> None, target |-> None,
     experimental |-> None, group |-> <<>>]

\* Enumerations.ConceptMapEquivalence.fromCode and its inverse toCode.
ConceptMapEquivalence_fromCode(code) ==
    CASE code = "equivalent" -> "EQUIVALENT"
      [] code = "wider" -> "WIDER"
      [] OTHER -> "FHIRException"

ConceptMapEquivalence_toCode(enum) ==
    CASE enum = "EQUIVALENT" -> "equivalent"
      [] enum = "WIDER" -> "wider"
      [] OTHER -> None

\* The keys of the defaultdict `groups`, in first-insertion order.
RECURSIVE GroupKeys(_)
GroupKeys(mappings) ==
    IF mappings = <<>> THEN <<>>
    ELSE LET init == SubSeq(mappings, 1, Len(mappings) - 1)
             m == mappings[Len(mappings)]
             k == <<m[1], m[3]>>
             ks == GroupKeys(init)
         IN IF k \in Range(ks) THEN ks ELSE Append(ks, k)

\* groups[(ss, ts)]: the (sv, tv, eq) of the mappings of that pair, in order.
GroupValues(mappings, k) ==
    LET IsIn(m) == <<m[1], m[3]>> = k
        sel == SelectSeq(mappings, IsIn)
    IN [i \in 1..Len(sel) |-> <<sel[i][2], sel[i][4], sel[i][5]>>]

\* One element of a group: code, and one target with its code and equivalence.
MapElement(v) ==
    [code |-> v[1],
     target |-> [code |-> v[2],
                 equivalence |-> IF v[3] # None
                                 THEN ConceptMapEquivalence_fromCode(v[3])
                                 ELSE None]]

MapGroup(k, values) ==
    [source |-> k[1], target |-> k[2],
     element |-> [j \in 1..Len(values) |-> MapElement(values[j])]]

\* _add_mappings_to_map: one new group per (source_system, target_system).
_add_mappings_to_map(concept_map, mappings) ==
    LET ks == GroupKeys(mappings)
    IN [concept_map EXCEPT !.group =
            @ \o [i \in 1..Len(ks) |-> MapGroup(ks[i], GroupValues(mappings, ks[i]))]]

(***************************************************************************)
(* The JVM ConceptMaps store (com.cerner.bunsen.mappings.ConceptMaps).     *)
(* A store value is the sequence of its concept maps.                      *)
(***************************************************************************)
JEmptyConceptMaps == <<>>

JKeys(store) == { <<store[i].url, store[i].version>> : i \in 1..Len(store) }

JHas(store, url, version) == <<url, version>> \in JKeys(store)

\* getConceptMap(url, version): a copy of the stored map (stores are immutable
\* values), or NotFoundError.
JgetConceptMap(store, url, version) ==
    IF JHas(store, url, version)
    THEN [exc |-> None,
          ret |-> store[CHOOSE i \in 1..Len(store) :
                            store[i].url = url /\ store[i].version = version]]
    ELSE [exc |-> "NotFoundError", ret |-> None]

\* withConceptMaps(list): a new store value with the maps added;
\* DuplicateArtifactError when a (url, version) of the list is already there.
JwithConceptMaps(store, maps) ==
    IF \E i \in 1..Len(maps) : JHas(store, maps[i].url, maps[i].version)
    THEN [exc |-> "DuplicateArtifactError", ret |-> None]
    ELSE [exc |-> None, ret |-> store \o maps]

\* getMaps(): the metadata rows, without the mapping content.
JgetMaps(store) ==
    [i \in 1..Len(store) |->
        [url |-> store[i].url, version |-> store[i].version,
         source |-> store[i].source, target |-> store[i].target,
         experimental |-> store[i].experimental]]

\* The mapping rows of one concept map: one per target of each element of each
\* group, tagged with the owning url and version.
RECURSIVE FlattenSeq(_)
FlattenSeq(ss) == IF ss = <<>> THEN <<>> ELSE Head(ss) \o FlattenSeq(Tail(ss))

MappingRow(cm, g, e) ==
    [url |-> cm.url, version |-> cm.version,
     sourceSystem |-> g.source, sourceValue |-> e.code,
     targetSystem |-> g.target, targetValue |-> e.target.code,
     equivalence |-> ConceptMapEquivalence_toCode(e.target.equivalence)]

MapRows(cm) ==
    FlattenSeq([gi \in 1..Len(cm.group) |->
        [ei \in 1..Len(cm.group[gi].element) |->
            MappingRow(cm, cm.group[gi], cm.group[gi].element[ei])]])

\* getMappings(): the mapping rows of every concept map of the store.
JgetMappings(store) == FlattenSeq([i \in 1..Len(store) |-> MapRows(store[i])])

(***************************************************************************)
(* class ConceptMaps.                                                      *)
(***************************************************************************)
\* latest_version: `get_maps` is looked up as a bare name (not self.get_maps),
\* and `df` is read in the argument of where() before it is assigned.
ConceptMaps_latest_version(self, url) ==
    LET e == CallBareName("get_maps", 0)
    IN IF e # None THEN Raised(self, e) ELSE Raised(self, "UnboundLocalError")

ConceptMaps_get_maps(self) == Returned(self, JgetMaps(self))

ConceptMaps_get_mappings(self, url, version) ==
    LET df0 == JgetMappings(self)
        ByUrl(r) == EqLit(r.url, url)
        ByVersion(r) == EqLit(r.version, version)
        df1 == IF url # None THEN SelectSeq(df0, ByUrl) ELSE df0
        df2 == IF version # None THEN SelectSeq(df1, ByVersion) ELSE df1
    IN Returned(self, df2)

\* The ConceptMap that with_new_map builds before it is submitted.
BuildConceptMap(url, version, source, target, experimental, mappings) ==
    LET m1 == [NewConceptMap EXCEPT !.url = url, !.version = version,
                                    !.source = source, !.target = target]
        m2 == IF experimental
              THEN [m1 EXCEPT !.experimental = FhirBoolean(TRUE)]
              ELSE m1
    IN _add_mappings_to_map(m2, mappings)

\* Faulty variant: the new store is assigned to the receiver's own
\* _jconcept_maps before it is returned.
ConceptMaps_with_new_map_in_place(self, url, version, source, target, experimental, mappings) ==
    LET concept_map == BuildConceptMap(url, version, source, target, experimental, mappings)
        r == JwithConceptMaps(self, <<concept_map>>)
    IN IF r.exc # None THEN Raised(self, r.exc) ELSE Returned(r.ret, r.ret)

\* Faulty variant: the store's refusal of an existing (url, version) is caught
\* and the receiver is returned.
ConceptMaps_with_new_map_swallow(self, url, version, source, target, experimental, mappings) ==
    LET concept_map == BuildConceptMap(url, version, source, target, experimental, mappings)
        r == JwithConceptMaps(self, <<concept_map>>)
    IN IF r.exc # None THEN Returned(self, self) ELSE Returned(self, r.ret)

ConceptMaps_with_new_map(self, url, version, source, target, experimental, mappings) ==
    LET concept_map == BuildConceptMap(url, version, source, target, experimental, mappings)
        r == JwithConceptMaps(self, <<concept_map>>)
    IN IF r.exc # None THEN Raised(self, r.exc) ELSE Returned(self, r.ret)

\* Faulty variant: a concept map that is not found is created on the spot.
ConceptMaps_add_mappings_upsert(self, url, version, mappings) ==
    LET f == JgetConceptMap(self, url, version)
        base == IF f.exc # None
                THEN [NewConceptMap EXCEPT !.url = url, !.version = version]
                ELSE f.ret
        concept_map == _add_mappings_to_map(base, mappings)
        r == JwithConceptMaps(self, <<concept_map>>)
    IN IF r.exc # None THEN Raised(self, r.exc) ELSE Returned(self, r.ret)

ConceptMaps_add_mappings(self, url, version, mappings) ==
    LET f == JgetConceptMap(self, url, version)
    IN IF f.exc # None THEN Raised(self, f.exc)
       ELSE LET concept_map == _add_mappings_to_map(f.ret, mappings)
                r == JwithConceptMaps(self, <<concept_map>>)
            IN IF r.exc # None THEN Raised(self, r.exc) ELSE Returned(self, r.ret)

(***************************************************************************)
(* Value sets.                                                             *)
(***************************************************************************)
\* The version argument of with_new_value_set: a version, none, or empty.
VsVersions == {"1", None, ""}
VsExperimental == BOOLEAN

\* The values lists passed, of (system, value): empty, one value, and two
\* systems interleaved.
ValueLists ==
    { <<>>,
      << <<"sys1", "c1">> >>,
      << <<"sys1", "c1">>, <<"sys2", "c3">>, <<"sys1", "c2">> >> }

\* ValueSet(): a new resource, every element unset, an empty compose.
NewValueSet ==
    [url |-> None, version |-> None, experimental |-> None, include |-> <<>>]

\* datetime.isoformat(sep=' ') of the clock's second s.
IsoSeconds ==
    << "2018-01-01 00:00:00", "2018-01-01 00:00:01", "2018-01-01 00:00:02",
       "2018-01-01 00:00:03", "2018-01-01 00:00:04", "2018-01-01 00:00:05",
       "2018-01-01 00:00:06", "2018-01-01 00:00:07" >>

isoformat(second) == IsoSeconds[second + 1]

\* datetime.now().replace(microsecond=0).isoformat(sep=' ') for a clock reading
\* in ticks: the part of the second is dropped.
VersionStamp(tick) == isoformat(tick \div TicksPerSecond)

\* The keys of the defaultdict `inclusions`, in first-insertion order.
RECURSIVE InclusionKeys(_)
InclusionKeys(values) ==
    IF values = <<>> THEN <<>>
    ELSE LET ks == InclusionKeys(SubSeq(values, 1, Len(values) - 1))
             k == values[Len(values)][1]
         IN IF k \in Range(ks) THEN ks ELSE Append(ks, k)

\* inclusions[s]: the values of system s, in order.
InclusionValues(values, system) ==
    LET IsIn(x) == x[1] = system
        sel == SelectSeq(values, IsIn)
    IN [i \in 1..Len(sel) |-> sel[i][2]]

\* _add_values_to_value_set: one new inclusion per system; reads[i] is what
\* datetime.now() gave in the i-th turn of the loop over the systems.
_add_values_to_value_set(value_set, values, reads) ==
    LET ks == InclusionKeys(values)
    IN [value_set EXCEPT !.include =
            @ \o [i \in 1..Len(ks) |->
                    [system |-> ks[i],
                     version |-> VersionStamp(reads[i]),
                     concept |-> InclusionValues(values, ks[i])]]]

\* The clock readings a call over `values` can make, starting at tick `now`:
\* between two readings no tick or one tick goes by.
ClockReads(now, values) ==
    LET n == Len(InclusionKeys(values))
    IN { r \in [1..n -> now..MaxClock] :
            \A i \in 1..n : r[i] - (IF i = 1 THEN now ELSE r[i - 1]) \in {0, 1} }

ClockAfter(now, reads) == IF reads = <<>> THEN now ELSE reads[Len(reads)]

(***************************************************************************)
(* The JVM ValueSets store (com.cerner.bunsen.mappings.ValueSets).  A      *)
(* store value is the sequence of its value sets.                          *)
(***************************************************************************)
JEmptyValueSets == <<>>

\* getValueSet(url, version): a copy of the stored value set, or NotFoundError.
JgetValueSet(store, url, version) ==
    IF JHas(store, url, version)
    THEN [exc |-> None,
          ret |-> store[CHOOSE i \in 1..Len(store) :
                            store[i].url = url /\ store[i].version = version]]
    ELSE [exc |-> "NotFoundError", ret |-> None]

\* withValueSets(list): a new store value with the value sets added;
\* DuplicateArtifactError when a (url, version) of the list is already there.
JwithValueSets(store, sets) ==
    IF \E i \in 1..Len(sets) : JHas(store, sets[i].url, sets[i].version)
    THEN [exc |-> "DuplicateArtifactError", ret |-> None]
    ELSE [exc |-> None, ret |-> store \o sets]

\* getValueSets(): the metadata rows, without the values.
JgetValueSets(store) ==
    [i \in 1..Len(store) |->
        [url |-> store[i].url, version |-> store[i].version,
         experimental |-> store[i].experimental]]

ValueRow(vs, inc, code) ==
    [valueSetUri |-> vs.url, valueSetVersion |-> vs.version,
     system |-> inc.system, version |-> inc.version, value |-> code]

ValueRows(vs) ==
    FlattenSeq([ii \in 1..Len(vs.include) |->
        [ci \in 1..Len(vs.include[ii].concept) |->
            ValueRow(vs, vs.include[ii], vs.include[ii].concept[ci])]])

\* getValues(): the value rows of every value set of the store.
JgetValues(store) == FlattenSeq([i \in 1..Len(store) |-> ValueRows(store[i])])

(***************************************************************************)
(* class ValueSets.                                                        *)
(***************************************************************************)
\* latest_version: the bare name get_value_sets is the module-level function
\* get_value_sets(spark_session, database='ontologies'), called with no argument.
ValueSets_latest_version(self, url) ==
    LET e == CallBareName("get_value_sets", 0)
    IN IF e # None THEN Raised(self, e) ELSE Raised(self, "UnboundLocalError")

ValueSets_get_value_sets(self) == Returned(self, JgetValueSets(self))

\* get_values: the version filter compares valueSetVersion with lit(url).
ValueSets_get_values(self, url, version) ==
    LET df0 == JgetValues(self)
        ByUrl(r) == EqLit(r.valueSetUri, url)
        ByVersion(r) == EqLit(r.valueSetVersion, url)
        df1 == IF url # None THEN SelectSeq(df0, ByUrl) ELSE df0
        df2 == IF version # None THEN SelectSeq(df1, ByVersion) ELSE df1
    IN Returned(self, df2)

\* The ValueSet that with_new_value_set builds before it is submitted.
BuildValueSet(url, version, experimental, values, reads) ==
    LET v1 == [NewValueSet EXCEPT !.url = url, !.version = version]
        v2 == IF experimental
              THEN [v1 EXCEPT !.experimental = FhirBoolean(TRUE)]
              ELSE v1
    IN _add_values_to_value_set(v2, values, reads)

ValueSets_with_new_value_set(self, url, version, experimental, values, reads) ==
    LET value_set == BuildValueSet(url, version, experimental, values, reads)
        r == JwithValueSets(self, <<value_set>>)
    IN IF r.exc # None THEN Raised(self, r.exc) ELSE Returned(self, r.ret)

ValueSets_add_values(self, url, version, values, reads) ==
    LET f == JgetValueSet(self, url, version)
    IN IF f.exc # None THEN Raised(self, f.exc)
       ELSE LET value_set == _add_values_to_value_set(f.ret, values, reads)
                r == JwithValueSets(self, <<value_set>>)
            IN IF r.exc # None THEN Raised(self, r.exc) ELSE Returned(self, r.ret)

(***************************************************************************)
(* class Hierarchies.  The store is the set of ancestor rows (the closure  *)
(* is built elsewhere); getAncestors() returns them.                       *)
(***************************************************************************)
HierarchyUris == {"h1", "h2"}
HierarchyVersions == {"1", "2"}

AncestorRows ==
    { [uri |-> u, version |-> v, descendantValue |-> "c1", ancestorValue |-> "c0"] :
        u \in HierarchyUris, v \in HierarchyVersions }

JgetAncestors(store) == store

\* The names a method body of get_ancestors(self, url=None, version=None) can
\* read: its parameters, then the module's globals.
get_ancestors_Locals == {"self", "url", "version", "df"}

ReadName(locals, name) ==
    IF name \in locals \/ name \in ModuleGlobals THEN None ELSE "NameError"

\* get_ancestors: the url filter reads the name `uri` and the version filter
\* the name `veresion`, neither a parameter nor a global; with neither argument
\* given no filter is applied.
Hierarchies_get_ancestors(self, url, version) ==
    LET df == JgetAncestors(self)
        e1 == IF url # None THEN ReadName(get_ancestors_Locals, "uri") ELSE None
        e2 == IF version # None THEN ReadName(get_ancestors_Locals, "veresion") ELSE None
    IN IF e1 # None THEN Raised(self, e1)
       ELSE IF e2 # None THEN Raised(self, e2)
       ELSE Returned(self, df)

(***************************************************************************)
(* The state machine: a caller creates an instance of one of the three     *)
(* classes (create_concept_maps, create_value_sets, get_hierarchies),      *)
(* calls a method, looks at the outcome, and goes on either with the       *)
(* instance it called or with the instance the call returned.              *)
(***************************************************************************)
CmCall(op, url, version, source, target, experimental, mappings, out) ==
    [op |-> op, url |-> url, version |-> version, source |-> source,
     target |-> target, experimental |-> experimental, mappings |-> mappings,
     pre |-> cmSelf, exc |-> out.exc, ret |-> out.ret]

CmNoCall ==
    [op |-> "none", url |-> None, version |-> None, source |-> None,
     target |-> None, experimental |-> FALSE, mappings |-> <<>>,
     pre |-> <<>>, exc |-> None, ret |-> None]

VsCall(op, url, version, values, reads, out) ==
    [op |-> op, url |-> url, version |-> version, values |-> values,
     reads |-> reads, pre |-> vsSelf, exc |-> out.exc, ret |-> out.ret]

VsNoCall ==
    [op |-> "none", url |-> None, version |-> None, values |-> <<>>,
     reads |-> <<>>, pre |-> <<>>, exc |-> None, ret |-> None]

HCall(op, url, version, out) ==
    [op |-> op, url |-> url, version |-> version, pre |-> hSelf,
     exc |-> out.exc, ret |-> out.ret]

HNoCall ==
    [op |-> "none", url |-> None, version |-> None, pre |-> {},
     exc |-> None, ret |-> None]

Init ==
    /\ inUse \in {"ConceptMaps", "ValueSets", "Hierarchies"}
    /\ cmSelf = JEmptyConceptMaps
    /\ cmLast = CmNoCall
    /\ vsSelf = JEmptyValueSets
    /\ vsLast = VsNoCall
    /\ clock = 0
    /\ hSelf \in (IF inUse = "Hierarchies" THEN SUBSET AncestorRows ELSE {{}})
    /\ hLast = HNoCall

CmFrame == UNCHANGED <<inUse, vsSelf, vsLast, clock, hSelf, hLast>>
VsFrame == UNCHANGED <<inUse, cmSelf, cmLast, hSelf, hLast>>
HFrame == UNCHANGED <<inUse, cmSelf, cmLast, vsSelf, vsLast, clock>>

CmReady == inUse = "ConceptMaps" /\ cmLast.op = "none"
VsReady == inUse = "ValueSets" /\ vsLast.op = "none"
HReady == inUse = "Hierarchies" /\ hLast.op = "none"

CM_latest_version ==
    /\ CmReady
    /\ \E url \in Urls :
        LET out == ConceptMaps_latest_version(cmSelf, url)
        IN /\ cmSelf' = out.self
           /\ cmLast' = CmCall("latest_version", url, None, None, None, FALSE, <<>>, out)
    /\ CmFrame

CM_get_maps ==
    /\ CmReady
    /\ LET out == ConceptMaps_get_maps(cmSelf)
       IN /\ cmSelf' = out.self
          /\ cmLast' = CmCall("get_maps", None, None, None, None, FALSE, <<>>, out)
    /\ CmFrame

CM_get_mappings ==
    /\ CmReady
    /\ \E url \in Urls \cup {None}, version \in Versions \cup {None} :
        LET out == ConceptMaps_get_mappings(cmSelf, url, version)
        IN /\ cmSelf' = out.self
           /\ cmLast' = CmCall("get_mappings", url, version, None, None, FALSE, <<>>, out)
    /\ CmFrame

CM_with_new_map ==
    /\ CmReady
    /\ \E url \in Urls, version \in Versions, source \in Sources, target \in Targets,
          experimental \in BOOLEAN, mappings \in MappingLists :
        LET out == ConceptMaps_with_new_map(cmSelf, url, version, source, target,
                                            experimental, mappings)
        IN /\ cmSelf' = out.self
           /\ cmLast' = CmCall("with_new_map", url, version, source, target,
                               experimental, mappings, out)
    /\ CmFrame

CM_add_mappings ==
    /\ CmReady
    /\ \E url \in Urls, version \in Versions, mappings \in MappingLists :
        LET out == ConceptMaps_add_mappings(cmSelf, url, version, mappings)
        IN /\ cmSelf' = out.self
           /\ cmLast' = CmCall("add_mappings", url, version, None, None, FALSE,
                               mappings, out)
    /\ CmFrame

\* The caller goes on with the ConceptMaps instance the last call returned.
CM_use_returned ==
    /\ inUse = "ConceptMaps"
    /\ cmLast.op \in {"with_new_map", "add_mappings"}
    /\ cmLast.exc = None
    /\ Len(cmLast.ret) <= MaxArtifacts
    /\ cmSelf' = cmLast.ret
    /\ cmLast' = CmNoCall
    /\ CmFrame

\* The caller goes on with the ConceptMaps instance it called.
CM_keep_receiver ==
    /\ inUse = "ConceptMaps"
    /\ cmLast.op # "none"
    /\ cmLast' = CmNoCall
    /\ UNCHANGED cmSelf
    /\ CmFrame

VS_latest_version ==
    /\ VsReady
    /\ \E url \in Urls :
        LET out == ValueSets_latest_version(vsSelf, url)
        IN /\ vsSelf' = out.self
           /\ vsLast' = VsCall("latest_version", url, None, <<>>, <<>>, out)
    /\ UNCHANGED clock
    /\ VsFrame

VS_get_value_sets ==
    /\ VsReady
    /\ LET out == ValueSets_get_value_sets(vsSelf)
       IN /\ vsSelf' = out.self
          /\ vsLast' = VsCall("get_value_sets", None, None, <<>>, <<>>, out)
    /\ UNCHANGED clock
    /\ VsFrame

VS_get_values ==
    /\ VsReady
    /\ \E url \in Urls \cup {None}, version \in VsVersions :
        LET out == ValueSets_get_values(vsSelf, url, version)
        IN /\ vsSelf' = out.self
           /\ vsLast' = VsCall("get_values", url, version, <<>>, <<>>, out)
    /\ UNCHANGED clock
    /\ VsFrame

VS_with_new_value_set ==
    /\ VsReady
    /\ \E url \in Urls, version \in VsVersions, experimental \in VsExperimental,
          values \in ValueLists :
        \E reads \in ClockReads(clock, values) :
            LET out == ValueSets_with_new_value_set(vsSelf, url, version,
                                                    experimental, values, reads)
            IN /\ vsSelf' = out.self
               /\ vsLast' = VsCall("with_new_value_set", url, version, values, reads, out)
               /\ clock' = ClockAfter(clock, reads)
    /\ VsFrame

\* add_values reads the clock only when getValueSet found the value set.
VS_add_values ==
    /\ VsReady
    /\ \E url \in Urls, version \in VsVersions, values \in ValueLists :
        \E reads \in (IF JHas(vsSelf, url, version)
                      THEN ClockReads(clock, values) ELSE {<<>>}) :
            LET out == ValueSets_add_values(vsSelf, url, version, values, reads)
            IN /\ vsSelf' = out.self
               /\ vsLast' = VsCall("add_values", url, version, values, reads, out)
               /\ clock' = ClockAfter(clock, reads)
    /\ VsFrame

\* The caller goes on with the ValueSets instance the last call returned.
VS_use_returned ==
    /\ inUse = "ValueSets"
    /\ vsLast.op \in {"with_new_value_set", "add_values"}
    /\ vsLast.exc = None
    /\ Len(vsLast.ret) <= MaxArtifacts
    /\ vsSelf' = vsLast.ret
    /\ vsLast' = VsNoCall
    /\ UNCHANGED clock
    /\ VsFrame

\* The caller goes on with the ValueSets instance it called.
VS_keep_receiver ==
    /\ inUse = "ValueSets"
    /\ vsLast.op # "none"
    /\ vsLast' = VsNoCall
    /\ UNCHANGED <<vsSelf, clock>>
    /\ VsFrame

H_get_ancestors ==
    /\ HReady
    /\ \E url \in HierarchyUris \cup {None}, version \in HierarchyVersions \cup {None} :
        LET out == Hierarchies_get_ancestors(hSelf, url, version)
        IN /\ hSelf' = out.self
           /\ hLast' = HCall("get_ancestors", url, version, out)
    /\ HFrame

H_keep_receiver ==
    /\ inUse = "Hierarchies"
    /\ hLast.op # "none"
    /\ hLast' = HNoCall
    /\ UNCHANGED hSelf
    /\ HFrame

Next ==
    \/ CM_latest_version
    \/ CM_get_maps
    \/ CM_get_mappings
    \/ CM_with_new_map
    \/ CM_add_mappings
    \/ CM_use_returned
    \/ CM_keep_receiver
    \/ VS_latest_version
    \/ VS_get_value_sets
    \/ VS_get_values
    \/ VS_with_new_value_set
    \/ VS_add_values
    \/ VS_use_returned
    \/ VS_keep_receiver
    \/ H_get_ancestors
    \/ H_keep_receiver

Spec == Init /\ [][Next]_vars

(***************************************************************************)
(* Properties.                                                             *)
(***************************************************************************)
CmMutators == {"with_new_map", "add_mappings"}
VsMutators == {"with_new_value_set", "add_values"}

\* String order of the version strings of the model; None (null) is below all.
VersionRank(v) ==
    CASE v = None -> 0 [] v = "" -> 1 [] v = "1" -> 2 [] v = "2" -> 3

\* The maximum version among the metadata rows of the url, None without any.
LatestOf(rows, url) ==
    LET vs == { rows[i].version : i \in { j \in 1..Len(rows) : rows[j].url = url } }
    IN IF vs = {} THEN None
       ELSE CHOOSE v \in vs : \A w \in vs : VersionRank(w) <= VersionRank(v)

\* C1: latest_version(url) returns, without raising, None when no metadata row
\* has the url and otherwise the maximum version among the rows of that url.
C1_latest_version_returns_max ==
    /\ cmLast.op = "latest_version" =>
          /\ cmLast.exc = None
          /\ cmLast.ret = LatestOf(JgetMaps(cmLast.pre), cmLast.url)
    /\ vsLast.op = "latest_version" =>
          /\ vsLast.exc = None
          /\ vsLast.ret = LatestOf(JgetValueSets(vsLast.pre), vsLast.url)

\* C2: add_mappings / add_values for a (url, version) with no metadata row
\* fails with NotFoundError and returns no store, and a store that add_mappings
\* / add_values returns has no (url, version) the receiver did not have.
C2_add_to_missing_fails ==
    /\ (cmLast.op = "add_mappings" /\ ~JHas(cmLast.pre, cmLast.url, cmLast.version)) =>
          (cmLast.exc = "NotFoundError" /\ cmLast.ret = None)
    /\ (cmLast.op = "add_mappings" /\ cmLast.exc = None) =>
          JKeys(cmLast.ret) = JKeys(cmLast.pre)
    /\ (vsLast.op = "add_values" /\ ~JHas(vsLast.pre, vsLast.url, vsLast.version)) =>
          (vsLast.exc = "NotFoundError" /\ vsLast.ret = None)
    /\ (vsLast.op = "add_values" /\ vsLast.exc = None) =>
          JKeys(vsLast.ret) = JKeys(vsLast.pre)

\* add_mappings was called on a store with a concept map, for another pair.
C2_witness ==
    /\ cmLast.op = "add_mappings"
    /\ Len(cmLast.pre) > 0
    /\ ~JHas(cmLast.pre, cmLast.url, cmLast.version)
    /\ cmLast.mappings # <<>>
    /\ cmLast.exc = "NotFoundError"

\* The mappings of a call as the rows get_mappings shows for them.
CallRows(url, version, mappings) ==
    [i \in 1..Len(mappings) |->
        [url |-> url, version |-> version,
         sourceSystem |-> mappings[i][1], sourceValue |-> mappings[i][2],
         targetSystem |-> mappings[i][3], targetValue |-> mappings[i][4],
         equivalence |-> mappings[i][5]]]

\* The metadata rows the call added: one for (url, version), and only for
\* with_new_map / with_new_value_set.
AddedOneRow(before, after, creates, url, version) ==
    LET extra == SeqToBag(after) (-) SeqToBag(before)
    IN /\ SeqToBag(before) \sqsubseteq SeqToBag(after)
       /\ BagCardinality(extra) = (IF creates THEN 1 ELSE 0)
       /\ \A r \in BagToSet(extra) : r.url = url /\ r.version = version

UniqueKeys(store) == Cardinality(JKeys(store)) = Len(store)

RowEntry(r) ==
    <<r.sourceSystem, r.sourceValue, r.targetSystem, r.targetValue, r.equivalence>>

\* The mappings get_mappings(url, version) shows, as the tuples callers pass.
EntriesOf(store, url, version) ==
    LET rows == ConceptMaps_get_mappings(store, url, version).ret
    IN [i \in 1..Len(rows) |-> RowEntry(rows[i])]

OfGroup(entries, ss, ts) ==
    LET IsIn(m) == m[1] = ss /\ m[3] = ts
    IN SelectSeq(entries, IsIn)

\* The mappings of a new concept map come back from get_mappings as they were
\* passed: the same multiset, and within each group in the order passed.
NewMapLossless ==
    (cmLast.op = "with_new_map" /\ ~JHas(cmLast.pre, cmLast.url, cmLast.version)) =>
        /\ cmLast.exc = None
        /\ LET got == EntriesOf(cmLast.ret, cmLast.url, cmLast.version)
           IN /\ SeqToBag(got) = SeqToBag(cmLast.mappings)
              /\ \A m \in Range(cmLast.mappings) :
                    OfGroup(got, m[1], m[3]) = OfGroup(cmLast.mappings, m[1], m[3])

\* add_mappings to a concept map of the store returns a store that shows the
\* mappings the map had and the mappings passed.
AddedMappingsKept ==
    (cmLast.op = "add_mappings" /\ JHas(cmLast.pre, cmLast.url, cmLast.version)) =>
        /\ cmLast.exc = None
        /\ SeqToBag(EntriesOf(cmLast.ret, cmLast.url, cmLast.version))
              = SeqToBag(EntriesOf(cmLast.pre, cmLast.url, cmLast.version))
                  (+) SeqToBag(cmLast.mappings)

C6_get_values_filter ==
    vsLast.op = "get_values" =>
        /\ vsLast.exc = None
        /\ LET Wanted(r) ==
                  /\ vsLast.url # None => r.valueSetUri = vsLast.url
                  /\ vsLast.version # None => r.valueSetVersion = vsLast.version
           IN SeqToBag(vsLast.ret) = SeqToBag(SelectSeq(JgetValues(vsLast.pre), Wanted))

\* C7: get_ancestors returns, without raising, the ancestor rows whose uri is
\* the uri argument (when given) and whose version is the version argument
\* (when given).
C7_get_ancestors_filter ==
    hLast.op = "get_ancestors" =>
        /\ hLast.exc = None
        /\ hLast.ret = { r \in hLast.pre :
                            /\ hLast.url # None => r.uri = hLast.url
                            /\ hLast.version # None => r.version = hLast.version }

\* The inclusion clauses of every value set of a store.
ClausesOf(store) == FlattenSeq([i \in 1..Len(store) |-> store[i].include])

ClauseVersionsNonEmpty(store) ==
    \A i \in 1..Len(ClausesOf(store)) : ClausesOf(store)[i].version \notin {None, ""}

ClauseVersionsDistinct(store) ==
    \A i, j \in 1..Len(ClausesOf(store)) :
        i # j => ClausesOf(store)[i].version # ClausesOf(store)[j].version

\* C8: every inclusion clause has a non-empty version, and the clauses of a
\* store have pairwise distinct versions.
C8_clause_versions_distinct ==
    /\ ClauseVersionsNonEmpty(vsSelf) /\ ClauseVersionsDistinct(vsSelf)
    /\ (vsLast.op \in VsMutators /\ vsLast.exc = None) =>
          (ClauseVersionsNonEmpty(vsLast.ret) /\ ClauseVersionsDistinct(vsLast.ret))

OwnVersionsNonEmpty(store) ==
    \A i \in 1..Len(store) : store[i].version \notin {None, ""}

\* C9: every value set of a store has a non-empty version of its own: a value
\* set created with the version omitted or empty gets a timestamp version.
C9_own_version_non_empty ==
    /\ OwnVersionsNonEmpty(vsSelf)
    /\ (vsLast.op = "with_new_value_set" /\ vsLast.exc = None) =>
          OwnVersionsNonEmpty(vsLast.ret)
    /\ (vsLast.op = "with_new_value_set" /\ vsLast.version \in {None, ""}) =>
          /\ vsLast.exc = None
          /\ \E i \in 1..Len(vsLast.ret) :
                /\ vsLast.ret[i].url = vsLast.url
                /\ \E t \in 0..MaxClock : vsLast.ret[i].version = VersionStamp(t)

\* C10: the metadata row of a concept map added with a fresh (url, version)
\* carries the url, version, source, target and experimental flag passed, and
\* the other metadata rows are those of the receiver.
C10_metadata_round_trip ==
    (cmLast.op = "with_new_map" /\ ~JHas(cmLast.pre, cmLast.url, cmLast.version)) =>
        /\ cmLast.exc = None
        /\ LET rows == ConceptMaps_get_maps(cmLast.ret).ret
               Mine(r) == r.url = cmLast.url /\ r.version = cmLast.version
               Other(r) == ~Mine(r)
           IN /\ SelectSeq(rows, Mine)
                    = << [url |-> cmLast.url, version |-> cmLast.version,
                          source |-> cmLast.source, target |-> cmLast.target,
                          experimental |-> FhirBoolean(cmLast.experimental)] >>
              /\ SelectSeq(rows, Other) = ConceptMaps_get_maps(cmLast.pre).ret

====
